---- MODULE Spec2Model ----
(***************************************************************************)
(* A model of cron_parser.js: the field expander (replaceNames,            *)
(* parseToken, parseField, uniqueSorted) and the command line driver       *)
(* (main, formatOutput).                                                   *)
(*                                                                         *)
(* A JavaScript string is a sequence of one-character strings, so that     *)
(* trim, split, the name regexp and parseInt are computed character by     *)
(* character as the runtime computes them.                                 *)
(***************************************************************************)
EXTENDS Integers, Sequences, FiniteSets, TLC

VARIABLES
    \* main(): the process
    argv,       \* process.argv.slice(2)
    pc,         \* "start", "map", "loop", "exit"; "harness" when parseField is called directly
    raw,        \* main's raw
    parts,      \* main's parts
    timeFields, \* main's timeFields
    command,    \* main's command
    fi,         \* index of the field timeFields.map is at
    fparts,     \* parseField's parts, for the field being expanded
    k,          \* position of parseField's for loop in fparts (1-based)
    values,     \* parseField's values
    expanded,   \* the results timeFields.map has collected so far
    stdout,     \* lines written by console.log
    stderr,     \* lines written by console.error
    exitCode,   \* -1 while running, else the process's exit code
    \* direct calls of parseField(fieldStr, defIndex)
    defIndex,   \* the defIndex argument
    texts,      \* the fieldStr arguments, called one after the other
    rets,       \* what each call returned or threw
    gen         \* how the texts were built

vars == <<argv, pc, raw, parts, timeFields, command, fi, fparts, k, values,
          expanded, stdout, stderr, exitCode, defIndex, texts, rets, gen>>

mainVars == <<argv, pc, raw, parts, timeFields, command, fi, fparts, k, values,
              expanded, stdout, stderr, exitCode>>

----------------------------------------------------------------------------
(* Characters and strings *)

DigitChars == <<"0", "1", "2", "3", "4", "5", "6", "7", "8", "9">>

LowerChars == <<"a", "b", "c", "d", "e", "f", "g", "h", "i", "j", "k", "l", "m",
                "n", "o", "p", "q", "r", "s", "t", "u", "v", "w", "x", "y", "z">>

UpperChars == <<"A", "B", "C", "D", "E", "F", "G", "H", "I", "J", "K", "L", "M",
                "N", "O", "P", "Q", "R", "S", "T", "U", "V", "W", "X", "Y", "Z">>

Range(s) == {s[i] : i \in DOMAIN s}

IndexOf(c, s) == CHOOSE i \in DOMAIN s : s[i] = c

IsDigit(c) == c \in Range(DigitChars)

DigitVal(c) == IndexOf(c, DigitChars) - 1

\* [a-zA-Z]
IsLetter(c) == c \in Range(LowerChars) \cup Range(UpperChars)

\* the white space String.prototype.trim, \s and parseInt skip
IsSpace(c) == c \in {" ", "\t", "\n"}

ToLowerChar(c) == IF c \in Range(UpperChars) THEN LowerChars[IndexOf(c, UpperChars)] ELSE c

\* the key left in the case it was written in
ToLowerCaseIdentity(s) == s

ToLowerCase(s) == [i \in DOMAIN s |-> ToLowerChar(s[i])]

\* String(n) of an integer
RECURSIVE NatToString(_)
NatToString(n) ==
    IF n < 10 THEN <<DigitChars[n + 1]>>
    ELSE NatToString(n \div 10) \o <<DigitChars[(n % 10) + 1]>>

StringOf(n) == IF n < 0 THEN <<"-">> \o NatToString(-n) ELSE NatToString(n)

RECURSIVE TrimStart(_)
TrimStart(s) ==
    IF s # <<>> /\ IsSpace(Head(s)) THEN TrimStart(Tail(s)) ELSE s

RECURSIVE TrimEnd(_)
TrimEnd(s) ==
    IF s # <<>> /\ IsSpace(s[Len(s)]) THEN TrimEnd(SubSeq(s, 1, Len(s) - 1)) ELSE s

Trim(s) == TrimEnd(TrimStart(s))

Includes(s, c) == \E i \in DOMAIN s : s[i] = c

\* s.split(c) for a one-character separator: "" gives [""], "a," gives ["a", ""]
RECURSIVE Split(_, _)
Split(s, c) ==
    IF ~Includes(s, c) THEN <<s>>
    ELSE LET i == CHOOSE j \in DOMAIN s : s[j] = c /\ \A h \in 1..(j - 1) : s[h] # c
         IN  <<SubSeq(s, 1, i - 1)>> \o Split(SubSeq(s, i + 1, Len(s)), c)

\* s.split(/\s+/): the separators are the maximal runs of white space
RECURSIVE SplitWs(_)
SplitWs(s) ==
    IF \A i \in DOMAIN s : ~IsSpace(s[i]) THEN <<s>>
    ELSE LET i == CHOOSE j \in DOMAIN s : IsSpace(s[j]) /\ \A h \in 1..(j - 1) : ~IsSpace(s[h])
         IN  <<SubSeq(s, 1, i - 1)>> \o SplitWs(TrimStart(SubSeq(s, i, Len(s))))

\* arr.join(sep)
RECURSIVE Join(_, _)
Join(arr, sep) ==
    IF arr = <<>> THEN <<>>
    ELSE IF Len(arr) = 1 THEN arr[1]
    ELSE arr[1] \o sep \o Join(Tail(arr), sep)

\* the number NaN, and a number read
NaN == [nan |-> TRUE, n |-> 0]

Num(n) == [nan |-> FALSE, n |-> n]

RECURSIVE DigitsPrefix(_, _, _)
\* the value of the longest prefix of digits of s, NaN when it is empty
DigitsPrefix(s, acc, any) ==
    IF s # <<>> /\ IsDigit(Head(s))
    THEN DigitsPrefix(Tail(s), 10 * acc + DigitVal(Head(s)), TRUE)
    ELSE IF any THEN Num(acc) ELSE NaN

\* parseInt(s, 10): leading white space is skipped, then an optional sign, then
\* the longest run of digits; whatever follows is ignored
ParseInt(s) ==
    LET t == TrimStart(s)
        neg == t # <<>> /\ Head(t) = "-"
        u == IF t # <<>> /\ Head(t) \in {"-", "+"} THEN Tail(t) ELSE t
        d == DigitsPrefix(u, 0, FALSE)
    IN  IF d.nan THEN NaN ELSE IF neg THEN Num(-d.n) ELSE d

----------------------------------------------------------------------------
(* The tables *)

MinuteMax == 59
HourMax == 23
DayOfMonthMax == 31
MonthMax == 12
DayOfWeekMax == 6

FIELD_DEFS ==
    <<[name |-> <<"m", "i", "n", "u", "t", "e">>, min |-> 0, max |-> MinuteMax],
      [name |-> <<"h", "o", "u", "r">>, min |-> 0, max |-> HourMax],
      [name |-> <<"d", "a", "y", " ", "o", "f", " ", "m", "o", "n", "t", "h">>,
       min |-> 1, max |-> DayOfMonthMax],
      [name |-> <<"m", "o", "n", "t", "h">>, min |-> 1, max |-> MonthMax],
      [name |-> <<"d", "a", "y", " ", "o", "f", " ", "w", "e", "e", "k">>,
       min |-> 0, max |-> DayOfWeekMax]>>

\* FIELD_DEFS[i] with the source's 0-based index
FieldDef(i) == FIELD_DEFS[i + 1]

MONTH_NAMES ==
    <<<<"j", "a", "n">>, <<"f", "e", "b">>, <<"m", "a", "r">>, <<"a", "p", "r">>,
      <<"m", "a", "y">>, <<"j", "u", "n">>, <<"j", "u", "l">>, <<"a", "u", "g">>,
      <<"s", "e", "p">>, <<"o", "c", "t">>, <<"n", "o", "v">>, <<"d", "e", "c">>>>

DOW_NAMES ==
    <<<<"s", "u", "n">>, <<"m", "o", "n">>, <<"t", "u", "e">>, <<"w", "e", "d">>,
      <<"t", "h", "u">>, <<"f", "r", "i">>, <<"s", "a", "t">>>>

\* nameMap[key] in the table of field fieldIndex, NaN standing for undefined
NameLookup(key, fieldIndex) ==
    IF fieldIndex = 3 /\ key \in Range(MONTH_NAMES) THEN Num(IndexOf(key, MONTH_NAMES))
    ELSE IF fieldIndex = 4 /\ key \in Range(DOW_NAMES) THEN Num(IndexOf(key, DOW_NAMES) - 1)
    ELSE NaN

----------------------------------------------------------------------------
(* The field expander *)

\* token.replace(/[a-zA-Z]{3}/g, ...): the matches are found left to right and do
\* not overlap; a match that is no key of the table is put back unchanged
RECURSIVE ReplaceAll(_, _)
ReplaceAll(token, fieldIndex) ==
    IF token = <<>> THEN <<>>
    ELSE IF Len(token) >= 3 /\ IsLetter(token[1]) /\ IsLetter(token[2]) /\ IsLetter(token[3])
    THEN LET m == SubSeq(token, 1, 3)
             v == NameLookup(ToLowerCase(m), fieldIndex)
         IN  (IF v.nan THEN m ELSE StringOf(v.n))
             \o ReplaceAll(SubSeq(token, 4, Len(token)), fieldIndex)
    ELSE <<Head(token)>> \o ReplaceAll(Tail(token), fieldIndex)

replaceNames(token, fieldIndex) ==
    IF fieldIndex \notin {3, 4} THEN token ELSE ReplaceAll(token, fieldIndex)

\* what a call gives: the array returned, or the Error thrown
NoErr == [kind |-> "none", token |-> <<>>]

Returned(vals) == [ok |-> TRUE, vals |-> vals, err |-> NoErr]

Thrown(kind, token) == [ok |-> FALSE, vals |-> <<>>, err |-> [kind |-> kind, token |-> token]]

\* the loop with v < rangeEnd for v <= rangeEnd
RECURSIVE StepLoopExclusive(_, _, _)
StepLoopExclusive(v, rangeEnd, step) ==
    IF v < rangeEnd THEN <<v>> \o StepLoopExclusive(v + step, rangeEnd, step) ELSE <<>>

\* for (let v = rangeStart; v <= rangeEnd; v += step) out.push(v)
RECURSIVE StepLoop(_, _, _)
StepLoop(v, rangeEnd, step) ==
    IF v <= rangeEnd THEN <<v>> \o StepLoop(v + step, rangeEnd, step) ELSE <<>>

\* the day of week field takes 7 for 0
FoldSeven(v, fieldIndex) == IF fieldIndex = 4 /\ v = 7 THEN 0 ELSE v

\* the bounds check on rangeStart alone
OutOfBoundsStartOnly(rangeStart, rangeEnd, min, max) ==
    rangeStart < min \/ rangeStart > max

OutOfBounds(rangeStart, rangeEnd, min, max) ==
    rangeStart < min \/ rangeStart > max \/ rangeEnd < min \/ rangeEnd > max

\* const step = stepPart ? parseInt(stepPart, 10) : 1, where stepPart is
\* undefined when the token has no slash; undefined and "" are both falsy
StepOf(splitSlash) ==
    IF Len(splitSlash) >= 2 /\ splitSlash[2] # <<>> THEN ParseInt(splitSlash[2]) ELSE Num(1)

InvalidStep(step) == step.nan \/ step.n <= 0

parseToken(token0, min, max, fieldIndex) ==
    LET token == replaceNames(Trim(token0), fieldIndex)
        splitSlash == Split(token, "/")
        rangePart == splitSlash[1]
        step == StepOf(splitSlash)
        ab == Split(rangePart, "-")
        a == ParseInt(ab[1])
        b == ParseInt(ab[2])
        val == ParseInt(rangePart)
    IN  IF InvalidStep(step) THEN Thrown("InvalidStep", token)
        ELSE IF rangePart # <<"*">> /\ Includes(rangePart, "-") /\ (a.nan \/ b.nan)
        THEN Thrown("InvalidRange", token)
        ELSE IF rangePart # <<"*">> /\ ~Includes(rangePart, "-") /\ val.nan
        THEN Thrown("InvalidValue", token)
        ELSE LET start0 == IF rangePart = <<"*">> THEN min
                           ELSE IF Includes(rangePart, "-") THEN a.n ELSE val.n
                 end0 == IF rangePart = <<"*">> THEN max
                         ELSE IF Includes(rangePart, "-") THEN b.n ELSE val.n
                 rangeStart == FoldSeven(start0, fieldIndex)
                 rangeEnd == FoldSeven(end0, fieldIndex)
             IN  IF OutOfBounds(rangeStart, rangeEnd, min, max)
                 THEN Thrown("OutOfBounds", token)
                 ELSE Returned(StepLoop(rangeStart, rangeEnd, step.n))

\* arr sorted by (a, b) => a - b without the Set: duplicates stay
RECURSIVE uniqueSortedKeepDuplicates(_)
uniqueSortedKeepDuplicates(arr) ==
    IF arr = <<>> THEN <<>>
    ELSE LET m == CHOOSE x \in Range(arr) : \A y \in Range(arr) : x <= y
         IN  SelectSeq(arr, LAMBDA x : x = m)
             \o uniqueSortedKeepDuplicates(SelectSeq(arr, LAMBDA x : x # m))

\* the concatenation as it is: neither deduplicated nor sorted
uniqueSortedIdentity(arr) == arr

\* Array.from(new Set(arr)) sorted by (a, b) => a - b
RECURSIVE SortedSeqOf(_)
SortedSeqOf(S) ==
    IF S = {} THEN <<>>
    ELSE LET m == CHOOSE x \in S : \A y \in S : x <= y
         IN  <<m>> \o SortedSeqOf(S \ {m})

uniqueSorted(arr) == SortedSeqOf(Range(arr))

\* fieldStr.split(',').map(p => p.trim()).filter(p => p.length > 0)
RECURSIVE NonEmpty(_)
NonEmpty(arr) ==
    IF arr = <<>> THEN <<>>
    ELSE (IF Head(arr) # <<>> THEN <<Head(arr)>> ELSE <<>>) \o NonEmpty(Tail(arr))

FieldParts(fieldStr) ==
    LET sp == Split(fieldStr, ",")
    IN  NonEmpty([i \in DOMAIN sp |-> Trim(sp[i])])

\* parseField's for loop from part i on: the first token that throws ends it
RECURSIVE ParseParts(_, _, _, _)
ParseParts(ps, i, vals, index) ==
    IF i > Len(ps) THEN Returned(uniqueSorted(vals))
    ELSE LET r == parseToken(ps[i], FieldDef(index).min, FieldDef(index).max, index)
         IN  IF r.ok THEN ParseParts(ps, i + 1, vals \o r.vals, index) ELSE r

parseField(fieldStr, index) ==
    IF fieldStr = <<>> THEN Thrown("MissingField", <<>>)
    ELSE ParseParts(FieldParts(fieldStr), 1, <<>>, index)

----------------------------------------------------------------------------
(* The command line driver *)

\* padLeftRight(s, width = 14)
RECURSIVE Spaces(_)
Spaces(n) == IF n <= 0 THEN <<>> ELSE <<" ">> \o Spaces(n - 1)

PadWidth == 14

padLeftRight(s, width) == IF Len(s) >= width THEN s ELSE s \o Spaces(width - Len(s))

CommandLabel == <<"c", "o", "m", "m", "a", "n", "d">>

\* the lines formatOutput joins with "\n"
formatOutput(exp, cmd) ==
    [i \in 1..Len(FIELD_DEFS) |->
        padLeftRight(FIELD_DEFS[i].name, PadWidth)
        \o Join([j \in DOMAIN exp[i] |-> StringOf(exp[i][j])], <<" ">>)]
    \o <<padLeftRight(CommandLabel, PadWidth) \o cmd>>

\* what console.error is given
ErrLine(msg, err) == [msg |-> msg, err |-> err]

\* parts.length < 6
MinParts == 6

\* the count check one part short
TooFewPartsOffByOne(ps) == Len(ps) < MinParts - 1

TooFewParts(ps) == Len(ps) < MinParts

harnessVars == <<defIndex, texts, rets, gen>>

\* main() runs in one go; it is cut at its calls of parseField and parseToken so
\* that the order in which fields and tokens are expanded is visible in the
\* behaviour. This is main() up to the try block: the usage check, the split and
\* the count check
Main ==
    /\ pc = "start"
    /\ LET r == Trim(Join(argv, <<" ">>))
           ps == SplitWs(r)
       IN  /\ raw' = r
           /\ IF r = <<>>
              THEN /\ stderr' = <<ErrLine("Usage", NoErr), ErrLine("Example", NoErr)>>
                   /\ exitCode' = 1
                   /\ pc' = "exit"
                   /\ UNCHANGED <<parts, timeFields, command>>
              ELSE /\ parts' = ps
                   /\ IF TooFewParts(ps)
                      THEN /\ stderr' = <<ErrLine("InvalidCronExpression", NoErr)>>
                           /\ exitCode' = 2
                           /\ pc' = "exit"
                           /\ UNCHANGED <<timeFields, command>>
                      ELSE /\ timeFields' = SubSeq(ps, 1, 5)
                           /\ command' = Join(SubSeq(ps, 6, Len(ps)), <<" ">>)
                           /\ pc' = "map"
                           /\ UNCHANGED <<stderr, exitCode>>
    /\ UNCHANGED <<argv, fi, fparts, k, values, expanded, stdout>>
    /\ UNCHANGED harnessVars

\* the catch block of main: console.error and process.exit(3)
Catch(err) ==
    /\ stderr' = Append(stderr, ErrLine("ErrorParsing", err))
    /\ exitCode' = 3
    /\ pc' = "exit"

\* timeFields.map calls parseField(f, i) for the next field: the missing field
\* check and the split into parts
ParseFieldEnter ==
    /\ pc = "map"
    /\ fi < Len(timeFields)
    /\ LET fieldStr == timeFields[fi + 1]
       IN  IF fieldStr = <<>>
           THEN /\ Catch([kind |-> "MissingField", token |-> <<>>])
                /\ UNCHANGED <<fparts, k, values>>
           ELSE /\ fparts' = FieldParts(fieldStr)
                /\ k' = 1
                /\ values' = <<>>
                /\ pc' = "loop"
                /\ UNCHANGED <<stderr, exitCode>>
    /\ UNCHANGED <<argv, raw, parts, timeFields, command, fi, expanded, stdout>>
    /\ UNCHANGED harnessVars

\* the for loop going on past a token that throws
ParseTokenStepSwallow ==
    /\ pc = "loop"
    /\ k <= Len(fparts)
    /\ LET r == parseToken(fparts[k], FieldDef(fi).min, FieldDef(fi).max, fi)
       IN  /\ values' = values \o r.vals
           /\ k' = k + 1
    /\ UNCHANGED <<argv, pc, raw, parts, timeFields, command, fi, fparts, expanded,
                   stdout, stderr, exitCode>>
    /\ UNCHANGED harnessVars

\* one turn of parseField's for loop: parseToken on the next part
ParseTokenStep ==
    /\ pc = "loop"
    /\ k <= Len(fparts)
    /\ LET r == parseToken(fparts[k], FieldDef(fi).min, FieldDef(fi).max, fi)
       IN  IF r.ok
           THEN /\ values' = values \o r.vals
                /\ k' = k + 1
                /\ UNCHANGED <<pc, stderr, exitCode>>
           ELSE /\ Catch(r.err)
                /\ UNCHANGED <<values, k>>
    /\ UNCHANGED <<argv, raw, parts, timeFields, command, fi, fparts, expanded, stdout>>
    /\ UNCHANGED harnessVars

\* parseField returns uniqueSorted(values); map goes on to the next field
ParseFieldReturn ==
    /\ pc = "loop"
    /\ k > Len(fparts)
    /\ expanded' = Append(expanded, uniqueSorted(values))
    /\ fi' = fi + 1
    /\ pc' = "map"
    /\ UNCHANGED <<argv, raw, parts, timeFields, command, fparts, k, values,
                   stdout, stderr, exitCode>>
    /\ UNCHANGED harnessVars

\* console.log(formatOutput(expanded, command)), and the process ends
PrintOutput ==
    /\ pc = "map"
    /\ fi = Len(timeFields)
    /\ stdout' = formatOutput(expanded, command)
    /\ exitCode' = 0
    /\ pc' = "exit"
    /\ UNCHANGED <<argv, raw, parts, timeFields, command, fi, fparts, k, values,
                   expanded, stderr>>
    /\ UNCHANGED harnessVars

\* a caller's parseField(fieldStr, defIndex), on the next of texts
CallParseField ==
    /\ pc = "harness"
    /\ Len(rets) < Len(texts)
    /\ rets' = Append(rets, parseField(texts[Len(rets) + 1], defIndex))
    /\ UNCHANGED <<defIndex, texts, gen>>
    /\ UNCHANGED mainVars

----------------------------------------------------------------------------
(* The inputs *)

\* all strings over alphabet A of length at most n
Strings(A, n) == UNION {[1..m -> A] : m \in 0..n}

FieldIndexes == 0..(Len(FIELD_DEFS) - 1)

IdleMain ==
    /\ argv = <<>>
    /\ raw = <<>>
    /\ parts = <<>>
    /\ timeFields = <<>>
    /\ command = <<>>
    /\ fi = 0
    /\ fparts = <<>>
    /\ k = 0
    /\ values = <<>>
    /\ expanded = <<>>
    /\ stdout = <<>>
    /\ stderr = <<>>
    /\ exitCode = -1

\* the arguments a command line is made of: an argument may be empty, hold one
\* field or several, and a field one token or several
ArgPool ==
    {<<>>,
     <<"*">>,
     <<"1", " ", "*", "/", "2">>,
     <<"0", ",", "x">>,
     <<" ", "7", " ">>}

MaxArgs == 5

Init ==
    /\ argv \in Strings(ArgPool, MaxArgs)
    /\ pc = "start"
    /\ raw = <<>>
    /\ parts = <<>>
    /\ timeFields = <<>>
    /\ command = <<>>
    /\ fi = 0
    /\ fparts = <<>>
    /\ k = 0
    /\ values = <<>>
    /\ expanded = <<>>
    /\ stdout = <<>>
    /\ stderr = <<>>
    /\ exitCode = -1
    /\ defIndex = 0
    /\ texts = <<>>
    /\ rets = <<>>
    /\ gen = [shape |-> "main"]

Next == Main \/ ParseFieldEnter \/ ParseTokenStep \/ ParseFieldReturn \/ PrintOutput

Spec == Init /\ [][Next]_vars

\* field texts, character by character
TextChars == {"0", "1", "7", "*", "/", "-", ",", " ", "x"}

MaxTextLen == 4

InitText ==
    /\ IdleMain
    /\ pc = "harness"
    /\ defIndex \in FieldIndexes
    /\ \E s \in Strings(TextChars, MaxTextLen) : texts = <<s>>
    /\ rets = <<>>
    /\ gen = [shape |-> "text"]

NextCall == CallParseField

SpecText == InitText /\ [][NextCall]_vars

\* one token built from numbers: a value a, a range a-b or *, with /c when c > 0
MaxNumber == 61

MaxStep == 3

BigStep == 100

Steps == (0..MaxStep) \cup {BigStep}

RangeText(g) ==
    IF g.shape = "star" THEN <<"*">>
    ELSE IF g.shape = "value" THEN StringOf(g.a)
    ELSE StringOf(g.a) \o <<"-">> \o StringOf(g.b)

StepText(g) == IF g.c = 0 THEN <<>> ELSE <<"/">> \o StringOf(g.c)

TokenText(g) == RangeText(g) \o StepText(g)

\* the token alone, and the token after a token every field accepts
InitRange ==
    /\ IdleMain
    /\ pc = "harness"
    /\ defIndex \in FieldIndexes
    /\ \E shape \in {"value", "range", "star"}, a \in 0..MaxNumber, b \in 0..MaxNumber,
          c \in Steps :
          /\ shape = "value" => b = a
          /\ shape = "star" => (a = 0 /\ b = 0)
          /\ gen = [shape |-> shape, a |-> a, b |-> b, c |-> c]
    /\ texts = <<TokenText(gen), <<"1", ",">> \o TokenText(gen)>>
    /\ rets = <<>>

SpecRange == InitRange /\ [][NextCall]_vars

\* one token with a slash: a range part every field accepts, then any step part
StepChars == {"0", "2", "-", "x"}

MaxStepLen == 2

MaxStepNumber == 5

InitStep ==
    /\ IdleMain
    /\ pc = "harness"
    /\ defIndex \in FieldIndexes
    /\ \E shape \in {"value", "range", "star"}, a \in 1..MaxStepNumber,
          b \in 1..MaxStepNumber, step \in Strings(StepChars, MaxStepLen) :
          /\ shape = "value" => b = a
          /\ shape = "star" => (a = 1 /\ b = 1)
          /\ gen = [shape |-> shape, a |-> a, b |-> b, c |-> 0, step |-> step]
    /\ texts = <<RangeText(gen) \o <<"/">> \o gen.step>>
    /\ rets = <<>>

SpecStep == InitStep /\ [][NextCall]_vars

\* comma separated lists of tokens, permuted and with a token repeated
TokenPool ==
    {<<"3">>,
     <<"1", "-", "5">>,
     <<" ", "2", " ">>,
     <<"0">>,
     <<"x">>}

MaxTokens == 3

Permuted(toks, perm) == [i \in DOMAIN toks |-> toks[perm[i]]]

InitList ==
    /\ IdleMain
    /\ pc = "harness"
    /\ defIndex \in FieldIndexes
    /\ \E n \in 1..MaxTokens :
          \E toks \in [1..n -> TokenPool], perm \in Permutations(1..n), rep \in 1..n :
              gen = [shape |-> "list", toks |-> toks, perm |-> perm, rep |-> rep]
    /\ texts = <<Join(gen.toks, <<",">>),
                 Join(Permuted(gen.toks, gen.perm), <<",">>),
                 Join(Append(Permuted(gen.toks, gen.perm), gen.toks[gen.rep]), <<",">>)>>
    /\ rets = <<>>

SpecList == InitList /\ [][NextCall]_vars

\* tokens whose value or bounds are names, in any letter case, and the same
\* tokens with the numbers written out
MaxNameStep == 2

CaseMasks == 0..7

\* letter i of name in upper case when bit i of mask is set
ApplyCase(name, mask) ==
    [i \in DOMAIN name |->
        IF (mask \div (2 ^ (i - 1))) % 2 = 1
        THEN UpperChars[IndexOf(name[i], LowerChars)]
        ELSE name[i]]

NameTable(tbl) == IF tbl = 3 THEN MONTH_NAMES ELSE DOW_NAMES

\* the number the tables give the n-th name: jan is 1, sun is 0
NameNumber(tbl, n) == IF tbl = 3 THEN n ELSE n - 1

NamedText(g) ==
    (IF g.shape = "value" THEN ApplyCase(NameTable(g.tbl)[g.n1], g.m1)
     ELSE ApplyCase(NameTable(g.tbl)[g.n1], g.m1) \o <<"-">>
          \o ApplyCase(NameTable(g.tbl)[g.n2], g.m2))
    \o StepText(g)

NumberedText(g) ==
    (IF g.shape = "value" THEN StringOf(NameNumber(g.tbl, g.n1))
     ELSE StringOf(NameNumber(g.tbl, g.n1)) \o <<"-">> \o StringOf(NameNumber(g.tbl, g.n2)))
    \o StepText(g)

InitNames ==
    /\ IdleMain
    /\ pc = "harness"
    /\ defIndex \in FieldIndexes
    /\ \E tbl \in {3, 4}, shape \in {"value", "range"}, c \in 0..MaxNameStep,
          m1 \in CaseMasks, m2 \in CaseMasks :
          \E n1 \in DOMAIN NameTable(tbl), n2 \in DOMAIN NameTable(tbl) :
              /\ defIndex \in {3, 4} => tbl = defIndex
              /\ shape = "value" => (n2 = n1 /\ m2 = m1)
              /\ gen = [shape |-> shape, tbl |-> tbl, n1 |-> n1, n2 |-> n2,
                        m1 |-> m1, m2 |-> m2, c |-> c]
    /\ texts = <<NamedText(gen), NumberedText(gen)>>
    /\ rets = <<>>

SpecNames == InitNames /\ [][NextCall]_vars

----------------------------------------------------------------------------
(* The command line: exit codes and the order of expansion *)

Joined == Join(argv, <<" ">>)

\* where the white space separated words of s start
WordStarts(s) == {j \in DOMAIN s : ~IsSpace(s[j]) /\ (j = 1 \/ IsSpace(s[j - 1]))}

\* the word of s that starts at j
WordAt(s, j) ==
    LET e == CHOOSE e \in j..Len(s) :
                 /\ \A h \in j..e : ~IsSpace(s[h])
                 /\ (e = Len(s) \/ IsSpace(s[e + 1]))
    IN  SubSeq(s, j, e)

\* the n-th word of s
NthWord(s, n) ==
    LET j == CHOOSE j \in WordStarts(s) :
                 Cardinality({h \in WordStarts(s) : h < j}) = n - 1
    IN  WordAt(s, j)

\* whether the i-th field (0-based) of the command line expands
FieldExpands(i) == parseField(NthWord(Joined, i + 1), i).ok

\* C7: every invocation ends, with exit code 1 iff the joined, trimmed argument
\* text is empty; 2 iff it is not empty and has fewer than 6 white space separated
\* tokens, decided before any field is expanded; 3 iff it has at least 6 tokens
\* and one of the first five does not expand; 0, with six lines printed, iff it
\* has at least 6 tokens and the first five all expand.
C7_ExitCodes ==
    LET n == Cardinality(WordStarts(Joined))
        allExpand == \A i \in FieldIndexes : FieldExpands(i)
    IN  /\ pc # "exit" =>
            \* still running, and by the guards of Next a step is enabled
            /\ exitCode = -1
            /\ \/ pc = "start"
               \/ pc = "map" /\ fi <= Len(timeFields)
               \/ pc = "loop" /\ k >= 1
        /\ pc = "exit" =>
            /\ exitCode \in {0, 1, 2, 3}
            /\ exitCode = 1 <=> n = 0
            /\ exitCode = 2 <=> n \in 1..5
            /\ exitCode = 2 => (expanded = <<>> /\ fi = 0 /\ k = 0 /\ stdout = <<>>)
            /\ exitCode = 3 <=> (n >= 6 /\ ~allExpand)
            /\ exitCode = 0 <=> (n >= 6 /\ allExpand)
            /\ exitCode = 0 => Len(stdout) = 6

\* C7's case: a successful run of a command line whose arguments hold several
\* tokens each, next to runs that ended with 1, 2 and 3
C7_Witness ==
    /\ pc = "exit"
    /\ exitCode = 0
    /\ Len(stdout) = 6
    /\ Len(argv) < 6
    /\ Len(parts) > 6

\* the values of the tokens ps[1..n], in order
RECURSIVE TokenValues(_, _, _)
TokenValues(ps, n, i) ==
    IF n = 0 THEN <<>>
    ELSE TokenValues(ps, n - 1, i)
         \o parseToken(ps[n], FieldDef(i).min, FieldDef(i).max, i).vals

TokenExpands(ps, j, i) == parseToken(ps[j], FieldDef(i).min, FieldDef(i).max, i).ok

\* C10: fields are expanded in positional order and the tokens of a field left
\* to right; the first token that fails ends the expansion: the error reported is
\* that of the leftmost failing token of the lowest failing field, no later token
\* and no later field is expanded, and nothing is written to standard output.
C10_FirstFailureStops ==
    /\ pc \in {"map", "loop"} =>
        /\ Len(expanded) = fi
        /\ \A i \in 1..fi : /\ parseField(timeFields[i], i - 1).ok
                            /\ expanded[i] = parseField(timeFields[i], i - 1).vals
    /\ pc = "loop" =>
        /\ fparts = FieldParts(timeFields[fi + 1])
        /\ \A j \in 1..(k - 1) : TokenExpands(fparts, j, fi)
        /\ values = TokenValues(fparts, k - 1, fi)
    /\ exitCode = 3 =>
        /\ \A i \in 1..fi : parseField(timeFields[i], i - 1).ok
        /\ fparts = FieldParts(timeFields[fi + 1])
        /\ \A j \in 1..(k - 1) : TokenExpands(fparts, j, fi)
        /\ ~TokenExpands(fparts, k, fi)
        /\ stderr = <<ErrLine("ErrorParsing",
                              parseToken(fparts[k], FieldDef(fi).min, FieldDef(fi).max, fi).err)>>
        /\ Len(expanded) = fi
        /\ values = TokenValues(fparts, k - 1, fi)
        /\ stdout = <<>>
    /\ pc = "exit" => ~ENABLED Next
    /\ stdout # <<>> => exitCode = 0

\* C10's case: the second token of the second field fails after the first field
\* and the first token were expanded, and a later field would fail too
C10_Witness ==
    /\ exitCode = 3
    /\ fi = 1
    /\ k = 2
    /\ Len(expanded) = 1
    /\ values # <<>>
    /\ ~parseField(timeFields[3], 2).ok

----------------------------------------------------------------------------
(* parseField on one text *)

Called(i) == pc = "harness" /\ Len(rets) >= i

StrictlyAscending(vals) == \A i \in 1..(Len(vals) - 1) : vals[i] < vals[i + 1]

\* C1: in the day of week field `7` expands as `0` does, to {0}, and `0-7`
\* expands to exactly 0, 1, 2, 3, 4, 5, 6 with no duplicate.
C1_SevenIsSunday ==
    (Called(1) /\ defIndex = 4) =>
        /\ texts[1] = <<"7">> => rets[1] = Returned(<<0>>)
        /\ texts[1] = <<"0">> => rets[1] = Returned(<<0>>)
        /\ texts[1] = <<"0", "-", "7">> => rets[1] = Returned(<<0, 1, 2, 3, 4, 5, 6>>)

\* C2: whenever parseField returns, for any field and field text, the result is
\* strictly ascending (sorted, no duplicates) and every member is within the
\* field's [min, max]; 7 never appears in a day of week result.
C2_SortedWithinBounds ==
    \A i \in DOMAIN rets :
        rets[i].ok =>
            /\ StrictlyAscending(rets[i].vals)
            /\ \A j \in DOMAIN rets[i].vals :
                   /\ rets[i].vals[j] >= FIELD_DEFS[defIndex + 1].min
                   /\ rets[i].vals[j] <= FIELD_DEFS[defIndex + 1].max
            /\ defIndex = 4 => \A j \in DOMAIN rets[i].vals : rets[i].vals[j] # 7

\* C2's case: tokens given out of order, the first one the alias 7
C2_Witness ==
    /\ Called(1)
    /\ defIndex = 4
    /\ texts[1] = <<"1", ",", "7">>
    /\ rets[1].ok
    /\ rets[1].vals = <<0, 1>>

\* a step part that is missing, holds no digit, is zero or is negative
BadStepPart(sp) ==
    \/ sp = <<>>
    \/ \A j \in DOMAIN sp : ~IsDigit(sp[j])
    \/ \A j \in DOMAIN sp : sp[j] = "0"
    \/ Len(sp) >= 2 /\ sp[1] = "-" /\ \A j \in 2..Len(sp) : IsDigit(sp[j])

\* C4: a token with a slash whose step part is missing (empty), non-numeric,
\* zero or negative makes the expansion fail with an invalid step error and
\* no values; only a token with no slash gets the step 1.
C4_BadStepFails ==
    (Called(1) /\ BadStepPart(gen.step)) =>
        /\ ~rets[1].ok
        /\ rets[1].err.kind = "InvalidStep"
        /\ rets[1].vals = <<>>

----------------------------------------------------------------------------
(* parseField on one token built from numbers *)

\* the step a token is written with, 1 when it has no slash
WrittenStep == IF gen.c = 0 THEN 1 ELSE gen.c

InDomain(v) == v >= FIELD_DEFS[defIndex + 1].min /\ v <= FIELD_DEFS[defIndex + 1].max

\* a, a+c, a+2c, ... within [a, b]
Stepped(a, b, c) == {v \in a..b : (v - a) % c = 0}

ExpandsTo(r, S) ==
    /\ r.ok
    /\ Range(r.vals) = S
    /\ Len(r.vals) = Cardinality(S)

Resolved(v) == IF defIndex = 4 /\ v = 7 THEN 0 ELSE v

----------------------------------------------------------------------------
(* parseField on lists of tokens *)

SameOutcome(r1, r2) == r1.ok = r2.ok /\ (r1.ok => r1.vals = r2.vals)

\* the values of the tokens of a list, each expanded alone
UnionOfTokens(toks) ==
    UNION {Range(parseField(toks[i], defIndex).vals) : i \in DOMAIN toks}

\* C6: a permutation of the tokens of a comma separated list, and a repetition
\* of one of its tokens, give the same outcome class and, on success, the same
\* ExpandedField: the union of the expansions of the tokens.
C6_OrderAndRepetition ==
    Called(3) =>
        /\ SameOutcome(rets[1], rets[2])
        /\ SameOutcome(rets[1], rets[3])
        /\ rets[1].ok => Range(rets[1].vals) = UnionOfTokens(gen.toks)
        /\ rets[1].ok <=> \A i \in DOMAIN gen.toks : parseField(gen.toks[i], defIndex).ok

\* C6's case: three different tokens that overlap, in another order
C6_Witness ==
    /\ Called(3)
    /\ defIndex = 0
    /\ gen.toks = <<<<"3">>, <<"1", "-", "5">>, <<"0">>>>
    /\ gen.perm = <<3, 1, 2>>
    /\ rets[1].ok
    /\ rets[2].vals = <<0, 1, 2, 3, 4, 5>>
    /\ rets[3].vals = <<0, 1, 2, 3, 4, 5>>

----------------------------------------------------------------------------
(* parseField on tokens written with names *)

\* C8: in the month and day of week fields a token whose value or bounds are
\* names of the field's table, in any letter case, with or without a step,
\* expands as the token with the numbers written out; in the minute, hour and
\* day of month fields it fails with an invalid value or invalid range error.
C8_NamesAsNumbers ==
    Called(2) =>
        /\ defIndex \in {3, 4} =>
               /\ rets[1].ok
               /\ rets[1] = rets[2]
        /\ defIndex \in {0, 1, 2} =>
               /\ ~rets[1].ok
               /\ rets[1].err.kind =
                      (IF gen.shape = "value" THEN "InvalidValue" ELSE "InvalidRange")

\* C8's case: `JAN-mar/2` in the month field
C8_Witness ==
    /\ Called(2)
    /\ defIndex = 3
    /\ texts[1] = <<"J", "A", "N", "-", "m", "a", "r", "/", "2">>
    /\ texts[2] = <<"1", "-", "3", "/", "2">>
    /\ rets[1].vals = <<1, 3>>
    /\ rets[2].vals = <<1, 3>>

====
